---- MODULE Spec2Model ----
(***************************************************************************)
(* Model of the Http integration of packages/node-experimental            *)
(* (src/integrations/http.ts): the span admission decision taken on       *)
(* 'otelSpanEnd', the enrichment of the Sentry span in the request hook   *)
(* and the breadcrumb recorded in the response hook.                      *)
(*                                                                         *)
(* JavaScript values are tagged records, so that values of different      *)
(* JavaScript types can be stored in the same field and compared.  A      *)
(* JavaScript string is the sequence of its characters.                   *)
(***************************************************************************)
EXTENDS Integers, Sequences, FiniteSets, TLC

\* ------------------------------------------------------------------------
\* JavaScript values
\* ------------------------------------------------------------------------
Undefined == [t |-> "undefined"]
Str(s) == [t |-> "string", s |-> s]
Num(n) == [t |-> "number", n |-> n]
Bool(b) == [t |-> "boolean", b |-> b]
Fn(f) == [t |-> "function", f |-> f]
Obj(o) == [t |-> "object", o |-> o]

\* A key of a map that was never written (distinct from a key set to undefined).
NotSet == [t |-> "notset"]

\* JavaScript truthiness, as used by `if (v)`, `a && b` and `a || b`.
Truthy(v) ==
  CASE v.t = "undefined" -> FALSE
    [] v.t = "string" -> v.s # <<>>
    [] v.t = "number" -> v.n # 0
    [] v.t = "boolean" -> v.b
    [] OTHER -> TRUE

\* obj[key]: a key that was never written reads as undefined
Get(obj, key) == IF obj[key] = NotSet THEN Undefined ELSE obj[key]

\* a || b
OrElse(a, b) == IF Truthy(a) THEN a ELSE b

\* String.prototype.slice(1)
Slice1(s) == SubSeq(s, 2, Len(s))

\* String.prototype.includes(sub)
Includes(s, sub) ==
  \E i \in 1..(Len(s) - Len(sub) + 1) : SubSeq(s, i, i + Len(sub) - 1) = sub

\* Index of the first occurrence of character c in s from index i on,
\* Len(s) + 1 if there is none.
RECURSIVE IndexFrom(_, _, _)
IndexFrom(s, c, i) ==
  IF i > Len(s) THEN Len(s) + 1
  ELSE IF s[i] = c THEN i ELSE IndexFrom(s, c, i + 1)

IndexOf(s, c) == IndexFrom(s, c, 1)

\* ------------------------------------------------------------------------
\* Bounds and input domains
\* ------------------------------------------------------------------------
\* Largest number of breadcrumbs the hub's buffer is followed for.
MaxBreadcrumbs == 2

UrlApi == <<"h", "t", "t", "p", ":", "/", "/", "a", "p", "i", ".", "e", "x", "a", "m", "p", "l", "e", ".", "c", "o", "m", "/", "p", "a", "t", "h", "?", "x", "=", "1", "#", "f", "r", "a", "g">>
UrlHealthz == <<"h", "t", "t", "p", ":", "/", "/", "s", "v", "c", "/", "h", "e", "a", "l", "t", "h", "z">>
UrlQuery == <<"h", "t", "t", "p", ":", "/", "/", "s", "v", "c", "/", "o", "k", "?", "a", "=", "1">>
UrlEmpty == <<>>

\* Ids of OTEL spans.  Span 1 has a Sentry span, span 2 has none.
SpanIds == {1, 2}

\* Values of the attribute SemanticAttributes.HTTP_URL of a span.
UrlAttributes ==
  {Undefined, Num(42), Str(UrlEmpty), Str(UrlHealthz), Str(UrlQuery), Str(UrlApi)}

\* Values of the attribute SemanticAttributes.HTTP_STATUS_CODE of a span.
StatusAttributes == {Undefined, Num(0), Num(200)}

\* The user's shouldCreateSpanForRequest callbacks.
Predicates == {"dropAll", "notHealthz"}

\* The callback f applied to the url.
Apply(f, url) ==
  CASE f = "dropAll" -> FALSE
    [] f = "notHealthz" -> ~Includes(url, <<"h", "e", "a", "l", "t", "h", "z">>)

\* Spans that end (any span of the process: HTTP or not).
EndedSpans ==
  {[spanId |-> 1, kind |-> "CLIENT",
    attributes |-> [http_url |-> u, http_status_code |-> Undefined]] :
      u \in UrlAttributes}

\* The urls of the requests the HttpInstrumentation sees.
HookUrls == {UrlApi, UrlHealthz, UrlQuery}

\* Spans the HttpInstrumentation hands to its hooks: it has set http.url,
\* and http.status_code is one of statusCodes.
HookSpans(statusCodes) ==
  {[spanId |-> i, kind |-> k,
    attributes |-> [http_url |-> Str(u), http_status_code |-> c]] :
      i \in SpanIds, k \in {"CLIENT", "SERVER"},
      u \in HookUrls, c \in statusCodes}

\* request objects (ClientRequest | IncomingMessage)
Requests == {Obj("request")}

\* response objects (IncomingMessage | ServerResponse) with their statusCode
Responses == {[statusCode |-> Num(200)], [statusCode |-> Num(404)]}

\* HttpOptions given to the constructor
HttpOptions ==
  {[breadcrumbs |-> b, tracing |-> tr] :
     b \in {Undefined, Bool(TRUE), Bool(FALSE)},
     tr \in {Undefined, Bool(TRUE), Bool(FALSE)}
            \cup {Obj([shouldCreateSpanForRequest |-> p]) :
                    p \in {Undefined} \cup {Fn(f) : f \in Predicates}}}

\* The client of the current hub: none, or a client with its options and
\* with or without the `on` method.
Clients ==
  {Undefined,
   [t |-> "client", on |-> FALSE, options |-> [shouldCreateSpanForRequest |-> Undefined]],
   [t |-> "client", on |-> TRUE, options |-> [shouldCreateSpanForRequest |-> Undefined]],
   [t |-> "client", on |-> TRUE, options |-> [shouldCreateSpanForRequest |-> Fn("dropAll")]]}

\* ------------------------------------------------------------------------
\* State
\* ------------------------------------------------------------------------
VARIABLES
  options,                    \* the HttpOptions the integration was built from
  breadcrumbs,                \* Http._breadcrumbs
  tracing,                    \* Http._tracing
  shouldCreateSpans,          \* Http._shouldCreateSpans
  shouldCreateSpanForRequest, \* Http._shouldCreateSpanForRequest
  unload,                     \* Http._unload: set once the hooks are registered
  phase,                      \* "constructed", then "setup" after setupOnce
  client,                     \* getCurrentHub().getClient()
  listening,                  \* _onSpanEnd is a listener of 'otelSpanEnd'
  tracingEnabled,             \* what hasTracingEnabled(options) answers now
  sentrySpans,                \* the Sentry spans, by OTEL span id
  hubBreadcrumbs,             \* the breadcrumbs added to the hub
  call                        \* the latest callback, its arguments and effects

vars == <<options, breadcrumbs, tracing, shouldCreateSpans, shouldCreateSpanForRequest,
          unload, phase, client, listening, tracingEnabled, sentrySpans,
          hubBreadcrumbs, call>>

\* ------------------------------------------------------------------------
\* External collaborators
\* ------------------------------------------------------------------------
\* client?.getOptions()
getOptions(c) == IF c = Undefined THEN Undefined ELSE Obj(c.options)

\* hasTracingEnabled(clientOptions) of @sentry/core: the ambient flag.
hasTracingEnabled(clientOptions) == tracingEnabled

\* The request data of a url: url, and the query and the fragment of the
\* url with their leading '?' and '#', absent when the url has none.
requestDataOf(u) ==
  LET h == IndexOf(u, "#")
      beforeHash == SubSeq(u, 1, h - 1)
      q == IndexOf(beforeHash, "?")
  IN  [url |-> Str(u),
       http_query |-> IF q <= Len(beforeHash)
                        THEN Str(SubSeq(beforeHash, q, Len(beforeHash)))
                        ELSE NotSet,
       http_fragment |-> IF h <= Len(u) THEN Str(SubSeq(u, h, Len(u))) ELSE NotSet]

\* The request data of the urls of HookUrls
RequestData == [u \in HookUrls |-> requestDataOf(u)]

\* getRequestSpanData(span)
getRequestSpanData(span) == RequestData[span.attributes.http_url.s]

\* A Sentry span (or transaction) on which nothing was set yet.
NewSentrySpan(isTransaction) ==
  [t |-> "span", isTransaction |-> isTransaction,
   origin |-> "manual",
   metadata |-> [request |-> NotSet],
   tags |-> [http_status_code |-> NotSet],
   data |-> [url |-> NotSet, http_response_status_code |-> NotSet,
             http_query |-> NotSet, http_fragment |-> NotSet]]

\* _INTERNAL_getSentrySpan(spanId)
getSentrySpan(spanId) == sentrySpans[spanId]

\* Span.setData(key, value), Span.setTag(key, value),
\* Transaction.setMetadata({ request })
setData(sentrySpan, key, value) == [sentrySpan EXCEPT !.data[key] = value]
setTag(sentrySpan, key, value) == [sentrySpan EXCEPT !.tags[key] = value]
setMetadata(sentrySpan, request) == [sentrySpan EXCEPT !.metadata.request = request]

\* The keys of the data of a Sentry span, in the order they are written.
DataKeys == <<"url", "http_response_status_code", "http_query", "http_fragment">>

\* ------------------------------------------------------------------------
\* Http
\* ------------------------------------------------------------------------
\* new Http(options): the fields after construction
constructor(opts) ==
  [breadcrumbs |-> IF opts.breadcrumbs = Undefined THEN TRUE
                   ELSE opts.breadcrumbs.b,
   tracing |-> IF opts.tracing = Undefined THEN Undefined
               ELSE Bool(Truthy(opts.tracing)),
   shouldCreateSpans |-> FALSE,
   shouldCreateSpanForRequest |->
     IF Truthy(opts.tracing) /\ opts.tracing.t = "object"
       THEN opts.tracing.o.shouldCreateSpanForRequest
       ELSE Undefined]

Init ==
  /\ options \in HttpOptions
  /\ LET http == constructor(options)
     IN  /\ breadcrumbs = http.breadcrumbs
         /\ tracing = http.tracing
         /\ shouldCreateSpans = http.shouldCreateSpans
         /\ shouldCreateSpanForRequest = http.shouldCreateSpanForRequest
  /\ unload = FALSE
  /\ phase = "constructed"
  /\ client \in Clients
  /\ listening = FALSE
  /\ tracingEnabled \in BOOLEAN
  /\ \E isTransaction \in BOOLEAN :
       sentrySpans = [i \in SpanIds |->
                        IF i = 1 THEN NewSentrySpan(isTransaction) ELSE Undefined]
  /\ hubBreadcrumbs = <<>>
  /\ call = [op |-> "none"]

\* The fields and registrations setupOnce leaves behind.
setupOnce ==
  IF ~breadcrumbs /\ tracing = Bool(FALSE)
    THEN [shouldCreateSpans |-> shouldCreateSpans,
          shouldCreateSpanForRequest |-> shouldCreateSpanForRequest,
          unload |-> unload, listening |-> listening]
    ELSE
      LET clientOptions == getOptions(client)
      IN  [shouldCreateSpans |->
             IF tracing = Undefined THEN hasTracingEnabled(clientOptions)
             ELSE tracing.b,
           shouldCreateSpanForRequest |->
             OrElse(shouldCreateSpanForRequest,
                    IF clientOptions = Undefined THEN Undefined
                    ELSE clientOptions.o.shouldCreateSpanForRequest),
           unload |-> TRUE,
           listening |-> listening \/ (client # Undefined /\ client.on)]

SetupOnce ==
  /\ phase = "constructed"
  /\ phase' = "setup"
  /\ LET after == setupOnce
     IN  /\ shouldCreateSpans' = after.shouldCreateSpans
         /\ shouldCreateSpanForRequest' = after.shouldCreateSpanForRequest
         /\ unload' = after.unload
         /\ listening' = after.listening
  /\ UNCHANGED <<options, breadcrumbs, tracing, client, tracingEnabled, sentrySpans,
                 hubBreadcrumbs, call>>

\* The options of the client change after the SDK was initialised.
ChangeTracingEnabled ==
  /\ tracingEnabled' = ~tracingEnabled
  /\ UNCHANGED <<options, breadcrumbs, tracing, shouldCreateSpans,
                 shouldCreateSpanForRequest, unload, phase, client, listening,
                 sentrySpans, hubBreadcrumbs, call>>

\* getHttpUrl with the url converted to a string instead of being tested.
getHttpUrlCoerced(attributes) ==
  LET url == attributes.http_url
  IN  IF url.t = "number" THEN Str(<<"4", "2">>) ELSE url

getHttpUrl(attributes) ==
  LET url == attributes.http_url
  IN  IF url.t = "string" THEN url ELSE Undefined

\* The second half of _onSpanEnd: the span is dropped when there is a
\* shouldCreateSpanForRequest, the span has a url and the callback refuses it.
filterByUrl(otelSpan, mutableOptions) ==
  IF Truthy(shouldCreateSpanForRequest)
    THEN LET url == getHttpUrl(otelSpan.attributes)
         IN  IF Truthy(url)
               THEN [mutableOptions |->
                       IF ~Apply(shouldCreateSpanForRequest.f, url.s)
                         THEN [mutableOptions EXCEPT !.drop = TRUE]
                         ELSE mutableOptions,
                     invoked |-> <<url.s>>]
               ELSE [mutableOptions |-> mutableOptions, invoked |-> <<>>]
    ELSE [mutableOptions |-> mutableOptions, invoked |-> <<>>]

\* _onSpanEnd without the test of _shouldCreateSpans.
onSpanEndUnconditional(otelSpan, mutableOptions) ==
  filterByUrl(otelSpan, mutableOptions)

\* _onSpanEnd with the test of _shouldCreateSpans inverted.
onSpanEndInverted(otelSpan, mutableOptions) ==
  IF shouldCreateSpans
    THEN [mutableOptions |-> [mutableOptions EXCEPT !.drop = TRUE],
          invoked |-> <<>>]
    ELSE filterByUrl(otelSpan, mutableOptions)

\* _onSpanEnd resolving the tracing flag again for every span.
onSpanEndResolving(otelSpan, mutableOptions) ==
  IF ~(IF tracing = Undefined THEN hasTracingEnabled(getOptions(client))
       ELSE tracing.b)
    THEN [mutableOptions |-> [mutableOptions EXCEPT !.drop = TRUE],
          invoked |-> <<>>]
    ELSE filterByUrl(otelSpan, mutableOptions)

\* _onSpanEnd(otelSpan, mutableOptions): mutableOptions afterwards, and the
\* urls shouldCreateSpanForRequest was called with.
onSpanEnd(otelSpan, mutableOptions) ==
  IF ~shouldCreateSpans
    THEN [mutableOptions |-> [mutableOptions EXCEPT !.drop = TRUE],
          invoked |-> <<>>]
    ELSE filterByUrl(otelSpan, mutableOptions)

\* The client emits 'otelSpanEnd' for a span, with a fresh { drop: false }.
OtelSpanEnd ==
  /\ listening
  /\ \E otelSpan \in EndedSpans :
       LET after == onSpanEnd(otelSpan, [drop |-> FALSE])
       IN  call' = [op |-> "otelSpanEnd", otelSpan |-> otelSpan,
                    mutableOptions |-> after.mutableOptions,
                    invoked |-> after.invoked]
  /\ UNCHANGED <<options, breadcrumbs, tracing, shouldCreateSpans,
                 shouldCreateSpanForRequest, unload, phase, client, listening,
                 tracingEnabled, sentrySpans, hubBreadcrumbs>>

\* Unregister this integration.
Unregister ==
  /\ phase = "setup"
  /\ unload
  /\ unload' = FALSE
  /\ UNCHANGED <<options, breadcrumbs, tracing, shouldCreateSpans,
                 shouldCreateSpanForRequest, phase, client, listening,
                 tracingEnabled, sentrySpans, hubBreadcrumbs, call>>

\* Object.keys(additionalData).forEach(prop => sentrySpan.setData(prop, value))
RECURSIVE setAllData(_, _, _)
setAllData(sentrySpan, additionalData, i) ==
  IF i > Len(DataKeys) THEN sentrySpan
  ELSE setAllData(IF additionalData[DataKeys[i]] = NotSet THEN sentrySpan
                  ELSE setData(sentrySpan, DataKeys[i], additionalData[DataKeys[i]]),
                  additionalData, i + 1)

\* The query or the fragment stored as it is in the request data.
withSeparator(value) == value

\* data['http.query'].slice(1), data['http.fragment'].slice(1)
withoutSeparator(value) == Str(Slice1(value.s))

\* _updateSentrySpan once the Sentry span is found: the Sentry span afterwards
enrich(sentrySpan, span, request) ==
  LET data == getRequestSpanData(span)
      attributes == span.attributes
      s1 == [sentrySpan EXCEPT !.origin = "auto.http.otel.http"]
      s2 == IF sentrySpan.isTransaction /\ span.kind = "SERVER"
              THEN setMetadata(s1, request) ELSE s1
      hasStatus == Truthy(attributes.http_status_code)
      statusCode == attributes.http_status_code
      s3 == IF hasStatus THEN setTag(s2, "http_status_code", statusCode)
            ELSE s2
      additionalData ==
        [url |-> data.url,
         http_response_status_code |->
           IF hasStatus THEN statusCode ELSE NotSet,
         http_query |->
           IF Truthy(Get(data, "http_query"))
             THEN withoutSeparator(data.http_query) ELSE NotSet,
         http_fragment |->
           IF Truthy(Get(data, "http_fragment"))
             THEN withoutSeparator(data.http_fragment) ELSE NotSet]
  IN  setAllData(s3, additionalData, 1)

\* _updateSentrySpan enriching the Sentry span of span 1 when the span
\* has no Sentry span.
updateSentrySpanFallback(span, request) ==
  LET sentrySpan == getSentrySpan(span.spanId)
  IN  IF ~Truthy(sentrySpan)
        THEN [sentrySpans EXCEPT ![1] = enrich(sentrySpans[1], span, request)]
        ELSE [sentrySpans EXCEPT
                ![span.spanId] = enrich(sentrySpan, span, request)]

\* _updateSentrySpan(span, request): the Sentry spans afterwards
updateSentrySpan(span, request) ==
  LET sentrySpan == getSentrySpan(span.spanId)
  IN  IF ~Truthy(sentrySpan) THEN sentrySpans
      ELSE [sentrySpans EXCEPT
              ![span.spanId] = enrich(sentrySpan, span, request)]

\* requestHook of the HttpInstrumentation
RequestHook ==
  /\ unload
  /\ \E span \in HookSpans(StatusAttributes), request \in Requests :
       /\ sentrySpans' = updateSentrySpan(span, request)
       /\ call' = [op |-> "requestHook", span |-> span, request |-> request]
  /\ UNCHANGED <<options, breadcrumbs, tracing, shouldCreateSpans,
                 shouldCreateSpanForRequest, unload, phase, client, listening,
                 tracingEnabled, hubBreadcrumbs>>

\* The breadcrumb of a response: { category, data: { status_code, ...data }, type }
breadcrumbOf(span, response) ==
  LET data == getRequestSpanData(span)
  IN  [category |-> "http",
       data |-> [status_code |-> response.statusCode,
                 url |-> data.url,
                 http_query |-> data.http_query,
                 http_fragment |-> data.http_fragment],
       type |-> "http"]

\* _addRequestBreadcrumb without the test of the kind of the span.
addRequestBreadcrumbAnyKind(span, response) ==
  IF ~breadcrumbs THEN hubBreadcrumbs
  ELSE Append(hubBreadcrumbs, breadcrumbOf(span, response))

\* _addRequestBreadcrumb(span, response): the breadcrumbs of the hub afterwards
addRequestBreadcrumb(span, response) ==
  IF ~breadcrumbs \/ span.kind # "CLIENT" THEN hubBreadcrumbs
  ELSE Append(hubBreadcrumbs, breadcrumbOf(span, response))

\* responseHook of the HttpInstrumentation: it is called once the
\* instrumentation has copied the status code of the response to the span.
ResponseHook ==
  /\ unload
  /\ Len(hubBreadcrumbs) < MaxBreadcrumbs
  /\ \E response \in Responses :
       \E span \in HookSpans({response.statusCode}) :
         /\ hubBreadcrumbs' = addRequestBreadcrumb(span, response)
         /\ call' = [op |-> "responseHook", span |-> span, response |-> response]
  /\ UNCHANGED <<options, breadcrumbs, tracing, shouldCreateSpans,
                 shouldCreateSpanForRequest, unload, phase, client, listening,
                 tracingEnabled, sentrySpans>>

Next ==
  \/ SetupOnce
  \/ Unregister
  \/ ChangeTracingEnabled
  \/ OtelSpanEnd
  \/ RequestHook
  \/ ResponseHook

Spec == Init /\ [][Next]_vars

\* The integration seen from each of its three callbacks.  _onSpanEnd
\* writes nothing but the mutableOptions of its call, the request hook
\* nothing but the Sentry spans and the response hook nothing but the
\* breadcrumbs of the hub, so that each callback is followed with setupOnce
\* and the steps of the environment it depends on.
NextAdmission == SetupOnce \/ ChangeTracingEnabled \/ OtelSpanEnd
SpecAdmission == Init /\ [][NextAdmission]_vars

NextEnrichment == SetupOnce \/ Unregister \/ RequestHook
SpecEnrichment == Init /\ [][NextEnrichment]_vars

NextBreadcrumbs == SetupOnce \/ Unregister \/ ResponseHook
SpecBreadcrumbs == Init /\ [][NextBreadcrumbs]_vars

\* ------------------------------------------------------------------------
\* Properties
\* ------------------------------------------------------------------------
\* The shouldCreateSpanForRequest of the HttpOptions, if there is one.
ConfiguredPredicate ==
  IF options.tracing.t = "object"
    THEN options.tracing.o.shouldCreateSpanForRequest ELSE Undefined

\* The shouldCreateSpanForRequest of the options of the client, if there is one.
ClientPredicate ==
  IF client = Undefined THEN Undefined
  ELSE client.options.shouldCreateSpanForRequest

\* The latest callback was _onSpanEnd.
SpanEnded == call.op = "otelSpanEnd"
EndedUrl == call.otelSpan.attributes.http_url

\* This step is a call of the request hook, resp. of the response hook.
RequestHookStep ==
  /\ call'.op = "requestHook"
  /\ call' # call \/ sentrySpans' # sentrySpans
ResponseHookStep ==
  /\ call'.op = "responseHook"
  /\ call' # call \/ hubBreadcrumbs' # hubBreadcrumbs

\* C1: when the tracing flag resolved at setup is false, _onSpanEnd sets
\* drop = true and does not call shouldCreateSpanForRequest, whatever the
\* span, its url and the callback are.
C1_DisabledTracingDrops ==
  (SpanEnded /\ ~shouldCreateSpans)
    => (call.mutableOptions.drop /\ call.invoked = <<>>)

C1_Witness ==
  /\ SpanEnded
  /\ ~shouldCreateSpans
  /\ shouldCreateSpanForRequest = Fn("dropAll")
  /\ EndedUrl = Str(UrlQuery)
  /\ call.mutableOptions.drop

\* C2: with tracing enabled and a shouldCreateSpanForRequest, for every span
\* whose http.url attribute is a string, drop is true after _onSpanEnd if the
\* callback returns false for the url and is still false if it returns true.
C2_PredicateDecidesForStringUrl ==
  (SpanEnded /\ shouldCreateSpans /\ Truthy(shouldCreateSpanForRequest)
     /\ EndedUrl.t = "string")
    => (call.mutableOptions.drop
          = ~Apply(shouldCreateSpanForRequest.f, EndedUrl.s))

\* C3: with tracing enabled and a shouldCreateSpanForRequest, for every span
\* whose http.url attribute is missing or not a string, _onSpanEnd does not
\* call the callback and leaves drop false.
C3_NoUrlKeepsSpan ==
  (SpanEnded /\ shouldCreateSpans /\ Truthy(shouldCreateSpanForRequest)
     /\ EndedUrl.t # "string")
    => (call.invoked = <<>> /\ ~call.mutableOptions.drop)

C3_Witness ==
  /\ SpanEnded
  /\ shouldCreateSpans
  /\ shouldCreateSpanForRequest = Fn("dropAll")
  /\ EndedUrl = Num(42)
  /\ ~call.mutableOptions.drop

ExpectedBreadcrumb(crumb) ==
  /\ crumb.category = "http"
  /\ crumb.type = "http"
  /\ crumb.data.status_code = call'.response.statusCode

\* C5: every call of the response hook adds exactly one breadcrumb, of
\* category "http", type "http" and with the status code of the response,
\* when breadcrumbs are enabled and the span is a CLIENT span, and adds no
\* breadcrumb otherwise (none for a SERVER span in particular).
C5_OneBreadcrumbPerClientResponse ==
  [][ResponseHookStep =>
        IF breadcrumbs /\ call'.span.kind = "CLIENT"
          THEN /\ Len(hubBreadcrumbs') = Len(hubBreadcrumbs) + 1
               /\ SubSeq(hubBreadcrumbs', 1, Len(hubBreadcrumbs)) = hubBreadcrumbs
               /\ ExpectedBreadcrumb(hubBreadcrumbs'[Len(hubBreadcrumbs')])
          ELSE hubBreadcrumbs' = hubBreadcrumbs]_vars

C5_Witness ==
  /\ call.op = "responseHook"
  /\ breadcrumbs
  /\ call.span.kind = "SERVER"
  /\ Len(hubBreadcrumbs) = 1
  /\ hubBreadcrumbs[1].data.status_code = Num(404)

\* C6: for a CLIENT span with breadcrumbs enabled whose url has a query and
\* a fragment, the breadcrumb of the response hook has the data status_code,
\* url, http.query and http.fragment, the last two being the query and the
\* fragment of the request data without their leading '?' and '#'.
C6_BreadcrumbWithoutSeparators ==
  (/\ call.op = "responseHook"
   /\ breadcrumbs
   /\ call.span.kind = "CLIENT"
   /\ Truthy(Get(getRequestSpanData(call.span), "http_query"))
   /\ Truthy(Get(getRequestSpanData(call.span), "http_fragment")))
    => LET data == getRequestSpanData(call.span)
           crumb == hubBreadcrumbs[Len(hubBreadcrumbs)]
       IN  crumb.data = [status_code |-> call.response.statusCode,
                         url |-> data.url,
                         http_query |-> Str(Slice1(data.http_query.s)),
                         http_fragment |-> Str(Slice1(data.http_fragment.s))]

\* C7: when the span has a Sentry span, the request hook writes http.query
\* (resp. http.fragment) to the data of the Sentry span exactly when the
\* request data has a non-empty query (resp. fragment), the value written
\* being that of the request data without its first character; url is
\* always written.
C7_QueryAndFragmentStripped ==
  [][(RequestHookStep /\ Truthy(sentrySpans[call'.span.spanId])) =>
        LET id == call'.span.spanId
            data == getRequestSpanData(call'.span)
            query == Get(data, "http_query")
            fragment == Get(data, "http_fragment")
            before == sentrySpans[id].data
            after == sentrySpans'[id].data
        IN  /\ after.url = data.url
            /\ IF query.t = "string" /\ query.s # <<>>
                 THEN after.http_query = Str(SubSeq(query.s, 2, Len(query.s)))
                 ELSE after.http_query = before.http_query
            /\ IF fragment.t = "string" /\ fragment.s # <<>>
                 THEN after.http_fragment
                        = Str(SubSeq(fragment.s, 2, Len(fragment.s)))
                 ELSE after.http_fragment = before.http_fragment]_vars

C7_Witness ==
  /\ call.op = "requestHook"
  /\ call.span.attributes.http_url = Str(UrlQuery)
  /\ Truthy(sentrySpans[call.span.spanId])
  /\ sentrySpans[call.span.spanId].data.url = Str(UrlQuery)
  /\ sentrySpans[call.span.spanId].data.http_query = Str(<<"a", "=", "1">>)
  /\ sentrySpans[call.span.spanId].data.http_fragment = NotSet

\* C8: when the span has no Sentry span, the request hook changes nothing:
\* no origin, metadata, tag or data is set on any Sentry span.
C8_NoSentrySpanNoChange ==
  [][(call'.op = "requestHook" /\ call' # call
        /\ ~Truthy(sentrySpans[call'.span.spanId]))
       => sentrySpans' = sentrySpans]_vars

C8_Witness ==
  /\ call.op = "requestHook"
  /\ ~Truthy(sentrySpans[call.span.spanId])
  /\ call.span.attributes.http_status_code = Num(200)
  /\ sentrySpans[1].origin = "manual"
  /\ sentrySpans[1].data.url = NotSet

\* C9: when the span has a Sentry span, the request hook sets the tag
\* http.status_code and the data http.response.status_code to the
\* http.status_code attribute of the span whenever the span has that
\* attribute, whatever its value, and sets neither when it has not.
C9_StatusCodeCopied ==
  [][(RequestHookStep /\ Truthy(sentrySpans[call'.span.spanId])) =>
        LET id == call'.span.spanId
            statusCode == call'.span.attributes.http_status_code
        IN  IF statusCode # Undefined
              THEN /\ sentrySpans'[id].tags.http_status_code = statusCode
                   /\ sentrySpans'[id].data.http_response_status_code = statusCode
              ELSE /\ sentrySpans'[id].tags = sentrySpans[id].tags
                   /\ sentrySpans'[id].data.http_response_status_code
                        = sentrySpans[id].data.http_response_status_code]_vars

====
